---- MODULE Spec2Model ----
(***************************************************************************)
(* A model of PyDataTable: src/datatable.py (DataTable, DataColumn,        *)
(* NullColumn) and src/datatable_diff.py.                                  *)
(*                                                                         *)
(* Rows are Python dict objects.  Several tables may hold the same row     *)
(* object, so rows live in a heap of objects and a table holds a header    *)
(* set and a list of object ids.                                           *)
(***************************************************************************)
EXTENDS Integers, Sequences, FiniteSets, TLC

\* ------------------------------------------------------------------ values
\* Cell values are encoded as integers: None, the empty string '' and the
\* positive integers themselves.
Null == -1
Blank == -2

\* ------------------------------------------------------------------ bounds
MaxRowsA == 3        \* longest input row sequence of table A
MaxRowsB == 2        \* longest input row sequence of table B
MaxSteps == 2        \* operator applications per behaviour

Names == {"A", "B", "C"}
Operands == {"A", "B"}
\* sorted() order of every header name that can occur
HeaderOrder == <<"a", "b", "c", "o_a", "o_b", "o_c">>
EmptyRow == [x \in {} |-> Null]
EmptyHeap == [o \in {} |-> EmptyRow]

VARIABLES
  heap,    \* object id -> row (a function from header names to values)
  tabs,    \* table name -> [headers, data]; data is a list of object ids
  cref,    \* the table object the name C is bound to
  last,    \* the last call: operation, arguments, outcome
  steps,   \* number of calls made
  rs       \* the ResultSet that diff returned

vars == <<heap, tabs, cref, last, steps, rs>>

\* ------------------------------------------------------------------ helpers
Range(s) == {s[i] : i \in 1..Len(s)}

Restrict(f, S) == [x \in S |-> f[x]]

\* dict update: g's entries override f's
Update(f, g) == [x \in (DOMAIN f) \cup (DOMAIN g) |-> IF x \in DOMAIN g THEN g[x] ELSE f[x]]

\* sorted(names)
Sorted(S) == SelectSeq(HeaderOrder, LAMBDA h : h \in S)

EmptyTable == [headers |-> {}, data |-> <<>>]

\* the rows of a table, by value
Rows(h, t) == [i \in 1..Len(t.data) |-> h[t.data[i]]]

\* the n lowest object ids not in use (the heap's domain is the ids in use)
RECURSIVE FreshFrom(_, _, _)
FreshFrom(used, n, o) ==
  IF n = 0 THEN <<>>
  ELSE IF o \in used THEN FreshFrom(used, n, o + 1)
  ELSE <<o>> \o FreshFrom(used, n - 1, o + 1)

Fresh(h, n) == FreshFrom(DOMAIN h, n, 1)

Index(s, x) == CHOOSE i \in 1..Len(s) : s[i] = x

\* the object ids in the order the tables A, B, C first refer to them
RECURSIVE Distinct(_, _)
Distinct(s, seen) ==
  IF s = <<>> THEN <<>>
  ELSE IF Head(s) \in seen THEN Distinct(Tail(s), seen)
  ELSE <<Head(s)>> \o Distinct(Tail(s), seen \cup {Head(s)})

RefOrder(tb) == Distinct(tb["A"].data \o tb["B"].data \o tb["C"].data, {})

\* Object identity matters only up to renaming: unreferenced objects are
\* collected and the others are numbered in the order of RefOrder.
Collect(h, tb) ==
  LET ord == RefOrder(tb)
  IN [heap |-> [i \in 1..Len(ord) |-> h[ord[i]]],
      tabs |-> [n \in DOMAIN tb |->
                  [tb[n] EXCEPT !.data = [k \in 1..Len(tb[n].data) |-> Index(ord, tb[n].data[k])]]]]

\* the state after a call that left heap h and tables tb
Commit(h, tb) ==
  /\ heap' = Collect(h, tb).heap
  /\ tabs' = Collect(h, tb).tabs

NoCall == [op |-> "init", t |-> "", u |-> "", arg |-> <<>>, raised |-> "none", val |-> <<>>]

Call(op, t, u, arg, raised, val) ==
  [op |-> op, t |-> t, u |-> u, arg |-> arg, raised |-> raised, val |-> val]

\* the table object a name denotes
Ref(n) == IF n = "C" THEN cref ELSE n

Tab(n) == tabs[Ref(n)]

\* DataTable.headers
headers(t) == Sorted(t.headers)

\* ------------------------------------------------------------ construction
\* the heap with the new objects ids[i] holding rows[i]
Store(h, ids, rows) ==
  [o \in (DOMAIN h) \cup Range(ids) |-> IF o \in Range(ids) THEN rows[Index(ids, o)] ELSE h[o]]

\* DataTable.__init__ on a sequence of dicts: ids are the input dict objects.
\* The header set is the union of their keys; missing keys are written into
\* the input dicts themselves; the rows are copies of the (filled) inputs.
InitHeaders(h, ids) == UNION {DOMAIN h[ids[i]] : i \in 1..Len(ids)}

Backfilled(row, hs) ==
  [x \in (DOMAIN row) \cup hs |-> IF x \in DOMAIN row THEN row[x] ELSE Null]

InitBackfill(h, ids) ==
  [o \in DOMAIN h |-> IF o \in Range(ids) THEN Backfilled(h[o], InitHeaders(h, ids)) ELSE h[o]]

\* returns the heap after the call and the new table
InitFromDicts(h, ids) ==
  IF ids = <<>> THEN [heap |-> h, table |-> EmptyTable]
  ELSE LET h1 == InitBackfill(h, ids)
           new == Fresh(h, Len(ids))
       IN [heap |-> Store(h1, new, [i \in 1..Len(ids) |-> h1[ids[i]]]),
           table |-> [headers |-> InitHeaders(h, ids), data |-> new]]

\* DataTable.__init__ on a header row followed by value rows
InitFromLists(h, hdrs, valueRows) ==
  LET new == Fresh(h, Len(valueRows))
  IN [heap |-> Store(h, new, [i \in 1..Len(valueRows) |->
                                [x \in Range(hdrs) |-> valueRows[i][Index(hdrs, x)]]]),
      table |-> [headers |-> Range(hdrs), data |-> new]]

\* DataTable.__init__ on another DataTable: every row is rebuilt from the
\* table's headers; a row that lacks one of them raises KeyError.
InitCopy(h, t) ==
  IF \E i \in 1..Len(t.data) : ~(t.headers \subseteq DOMAIN h[t.data[i]])
  THEN [heap |-> h, table |-> EmptyTable, raised |-> "KeyError"]
  ELSE LET new == Fresh(h, Len(t.data))
       IN [heap |-> Store(h, new, [i \in 1..Len(t.data) |-> Restrict(h[t.data[i]], t.headers)]),
           table |-> [headers |-> t.headers, data |-> new],
           raised |-> "none"]

\* ------------------------------------------------------- in-place operators
MutIAddRaises(self, other) == headers(self) # headers(other)

\* DataTable.__iadd__ with a DataTable on the right: the header check
IAddRaises(self, other) ==
  headers(self) # <<>> /\ headers(other) # <<>> /\ headers(self) # headers(other)

\* DataTable.__iadd__: the right operand's row objects are appended
IAddResult(self, other) ==
  IF IAddRaises(self, other)
  THEN [table |-> self, raised |-> "HeaderMismatch"]
  ELSE [table |-> [self EXCEPT !.data = self.data \o other.data], raised |-> "none"]

RemoveAt(s, j) == [i \in 1..(Len(s) - 1) |-> IF i < j THEN s[i] ELSE s[i + 1]]

MutFirstEqual(h, data, row) ==
  IF \E j \in 1..Len(data) : h[data[j]] = row
  THEN CHOOSE j \in 1..Len(data) :
         h[data[j]] = row /\ \A k \in (j + 1)..Len(data) : h[data[k]] # row
  ELSE 0

\* list.remove(row) after "row in list": the first element equal to row
FirstEqual(h, data, row) ==
  IF \E j \in 1..Len(data) : h[data[j]] = row
  THEN CHOOSE j \in 1..Len(data) :
         h[data[j]] = row /\ \A k \in 1..(j - 1) : h[data[k]] # row
  ELSE 0

\* DataTable.__isub__: the loop over other's row list, position i.  When
\* other is self the list iterated is the list being shortened.
RECURSIVE ISubLoop(_, _, _, _, _)
ISubLoop(h, selfData, otherData, same, i) ==
  LET cur == IF same THEN selfData ELSE otherData
  IN IF i > Len(cur) THEN selfData
     ELSE LET j == FirstEqual(h, selfData, h[cur[i]])
          IN IF j = 0 THEN ISubLoop(h, selfData, otherData, same, i + 1)
             ELSE ISubLoop(h, RemoveAt(selfData, j), otherData, same, i + 1)

ISubResult(h, self, other, same) ==
  [self EXCEPT !.data = ISubLoop(h, self.data, other.data, same, 1)]

\* DataTable.__iand__, one header: "for row in self.__data: row[header] = value"
RECURSIVE SetRows(_, _, _, _, _)
SetRows(h, data, header, value, i) ==
  IF i > Len(data) THEN h
  ELSE SetRows([h EXCEPT ![data[i]] = Update(@, [x \in {header} |-> value])],
               data, header, value, i + 1)

\* DataTable.__iand__ with a dict of header -> scalar value
RECURSIVE IAndLoop(_, _, _, _)
IAndLoop(h, self, m, keys) ==
  IF keys = <<>> THEN [heap |-> h, table |-> self]
  ELSE IAndLoop(SetRows(h, self.data, Head(keys), m[Head(keys)], 1),
                [self EXCEPT !.headers = @ \cup {Head(keys)}], m, Tail(keys))

IAndResult(h, self, m) == IAndLoop(h, self, m, Sorted(DOMAIN m))

\* "for row in self.__data: del row[key]": KeyError at the first row without key
RECURSIVE DelRows(_, _, _, _)
DelRows(h, data, key, i) ==
  IF i > Len(data) THEN [heap |-> h, raised |-> "none"]
  ELSE IF key \notin DOMAIN h[data[i]] THEN [heap |-> h, raised |-> "KeyError"]
  ELSE DelRows([h EXCEPT ![data[i]] = Restrict(@, (DOMAIN @) \ {key})], data, key, i + 1)

\* the loop "del self.__headers[key]; for row ...: del row[key]" over keys;
\* a key that is no header (any more) is skipped
RECURSIVE DelLoop(_, _, _)
DelLoop(h, self, keys) ==
  IF keys = <<>> THEN [heap |-> h, table |-> self, raised |-> "none"]
  ELSE IF Head(keys) \notin self.headers THEN DelLoop(h, self, Tail(keys))
  ELSE LET d == DelRows(h, self.data, Head(keys), 1)
           t1 == [self EXCEPT !.headers = @ \ {Head(keys)}]
       IN IF d.raised # "none" THEN [heap |-> d.heap, table |-> t1, raised |-> d.raised]
          ELSE DelLoop(d.heap, t1, Tail(keys))

\* DataTable.__ixor__ with a list of header names
IXorResult(h, self, other) ==
  IF self.data = <<>> THEN [heap |-> h, table |-> self, raised |-> "none"]
  ELSE DelLoop(h, self, other)

\* DataTable.__idiv__ with a list of header names
IDivResult(h, self, other) ==
  IF self.data = <<>> THEN [heap |-> h, table |-> self, raised |-> "none"]
  ELSE DelLoop(h, self, SelectSeq(headers(self), LAMBDA k : k \notin Range(other)))

\* --------------------------------------------------- non-mutating operators
Failed(h, e) == [heap |-> h, table |-> EmptyTable, raised |-> e]

\* DataTable.__add__: newData = DataTable(self); newData += other
AddResult(h, self, other) ==
  LET c == InitCopy(h, self)
      r == IAddResult(c.table, other)
  IN IF c.raised # "none" THEN Failed(h, c.raised)
     ELSE IF r.raised # "none" THEN Failed(h, r.raised)
     ELSE [heap |-> c.heap, table |-> r.table, raised |-> "none"]

\* DataTable.__sub__: newData = DataTable(self); newData -= other
SubResult(h, self, other) ==
  LET c == InitCopy(h, self)
  IN IF c.raised # "none" THEN Failed(h, c.raised)
     ELSE [heap |-> c.heap, table |-> ISubResult(c.heap, c.table, other, FALSE), raised |-> "none"]

\* DataTable.__and__ with a dict: newData = DataTable(self); newData &= other
AndResult(h, self, m) ==
  LET c == InitCopy(h, self)
      r == IAndResult(c.heap, c.table, m)
  IN IF c.raised # "none" THEN Failed(h, c.raised)
     ELSE [heap |-> r.heap, table |-> r.table, raised |-> "none"]

\* DataTable.__xor__: newData = DataTable(self); newData ^= other
XorResult(h, self, other) ==
  LET c == InitCopy(h, self)
      r == IXorResult(c.heap, c.table, other)
  IN IF c.raised # "none" THEN Failed(h, c.raised)
     ELSE [heap |-> r.heap, table |-> r.table, raised |-> r.raised]

\* DataTable.__div__: newData = DataTable(self); newData /= other
DivResult(h, self, other) ==
  LET c == InitCopy(h, self)
      r == IDivResult(c.heap, c.table, other)
  IN IF c.raised # "none" THEN Failed(h, c.raised)
     ELSE [heap |-> r.heap, table |-> r.table, raised |-> r.raised]

MutNewHeaders(self, other) ==
  [x \in {k \in Range(headers(other)) : k \notin Range(headers(self))} |-> Null]

\* the placeholder dicts of augment: '' for every header the table lacks
NewHeaders(self, other) ==
  [x \in {k \in Range(headers(other)) : k \notin Range(headers(self))} |-> Blank]

\* DataTable.augment with a DataTable argument.  same tells which operand the
\* result is ("self", "other") when no new table is made.
AugmentResult(h, self, other) ==
  IF Len(other.data) = 0
  THEN [heap |-> h, table |-> self, raised |-> "none", same |-> "self"]
  ELSE IF Len(self.data) = 0
  THEN [heap |-> h, table |-> other, raised |-> "none", same |-> "other"]
  ELSE LET l == AndResult(h, self, NewHeaders(self, other))
           r == AndResult(l.heap, other, NewHeaders(other, self))
           sum == AddResult(r.heap, l.table, r.table)
       IN IF l.raised # "none" THEN Failed(h, l.raised) @@ [same |-> "none"]
          ELSE IF r.raised # "none" THEN Failed(h, r.raised) @@ [same |-> "none"]
          ELSE sum @@ [same |-> "none"]

\* ------------------------------------------------------------------ readers
\* the elements of s at the positions in K, in order
RECURSIVE AtPositions(_, _, _)
AtPositions(s, K, i) ==
  IF i > Len(s) THEN <<>>
  ELSE IF i \in K THEN <<s[i]>> \o AtPositions(s, K, i + 1)
  ELSE AtPositions(s, K, i + 1)

\* a returned table, by value
Value(r) == [headers |-> r.table.headers, rows |-> Rows(r.heap, r.table)]

NoValue == [headers |-> {}, rows |-> <<>>]

\* tuple(row[field] for field in fields)
KeyOf(row, fields) == [k \in 1..Len(fields) |-> row[fields[k]]]

HasFields(row, fields) == Range(fields) \subseteq DOMAIN row

\* DataTable.bucket, first loop: the keys in the order they are first seen
BucketKeys(h, t, fields) ==
  Distinct([i \in 1..Len(t.data) |-> KeyOf(h[t.data[i]], fields)], {})

MutBucketIds(h, t, fields, key) == t.data

\* the row objects of one bucket, in row order
BucketIds(h, t, fields, key) ==
  SelectSeq(t.data, LAMBDA o : KeyOf(h[o], fields) = key)

\* DataTable.bucket, "DataTable(bucket)" for the keys from position k on: each
\* bucket's table is built from the table's own row objects
RECURSIVE BucketTables(_, _, _, _, _)
BucketTables(h, t, fields, keys, k) ==
  IF k > Len(keys) THEN [heap |-> h, buckets |-> <<>>]
  ELSE LET b == InitFromDicts(h, BucketIds(h, t, fields, keys[k]))
           rest == BucketTables(b.heap, t, fields, keys, k + 1)
       IN [heap |-> rest.heap,
           buckets |-> <<[key |-> keys[k], table |-> Value(b)]>> \o rest.buckets]

\* DataTable.bucket: KeyError when a row lacks one of the fields
BucketResult(h, t, fields) ==
  IF \E i \in 1..Len(t.data) : ~HasFields(h[t.data[i]], fields)
  THEN [heap |-> h, buckets |-> <<>>, raised |-> "KeyError"]
  ELSE BucketTables(h, t, fields, BucketKeys(h, t, fields), 1) @@ [raised |-> "none"]

\* otherBuckets[key]: the table of a key, or NoValue when the key is absent
Lookup(buckets, key) ==
  IF \E k \in 1..Len(buckets) : buckets[k].key = key
  THEN buckets[CHOOSE k \in 1..Len(buckets) : buckets[k].key = key].table
  ELSE NoValue

MutHasKey(buckets, key) == buckets # <<>>

\* key in otherBuckets
HasKey(buckets, key) == \E k \in 1..Len(buckets) : buckets[k].key = key

\* DataTable(generator of new dicts): the yielded dicts are new objects
TableOfRows(rows) ==
  IF rows = <<>> THEN NoValue
  ELSE LET ids == [i \in 1..Len(rows) |-> i]
       IN Value(InitFromDicts(Store(EmptyHeap, ids, rows), ids))

\* a call that raised: nothing is returned and no object was written
Raised(h, e) == [heap |-> h, raised |-> e, val |-> NoValue]

\* DataTable(rows of the table itself): the rows ids are backfilled in place
\* and the copy is returned
Selected(h, ids) ==
  [heap |-> InitFromDicts(h, ids).heap, raised |-> "none", val |-> Value(InitFromDicts(h, ids))]

\* filterFunction is [kind, match]: a dict of header -> value, or a function
\* of the row (lambda row: True)

\* all(line[k] == v for k, v in filterFunction.iteritems()): the items are
\* tested in turn (here in sorted order) up to the first that differs
RECURSIVE MatchesDict(_, _, _)
MatchesDict(line, keys, match) ==
  IF keys = <<>> THEN "yes"
  ELSE IF Head(keys) \notin DOMAIN line THEN "KeyError"
  ELSE IF line[Head(keys)] # match[Head(keys)] THEN "no"
  ELSE MatchesDict(line, Tail(keys), match)

\* DataTable.filter
FilterResult(h, t, f) ==
  IF f.kind = "dict"
  THEN IF \E i \in 1..Len(t.data) :
            MatchesDict(h[t.data[i]], Sorted(DOMAIN f.match), f.match) = "KeyError"
       THEN Raised(h, "KeyError")
       ELSE Selected(h, SelectSeq(t.data,
              LAMBDA o : MatchesDict(h[o], Sorted(DOMAIN f.match), f.match) = "yes"))
  ELSE Selected(h, t.data)

MutDistinctIds(h, t) == t.data

\* DataTable._distinct: the first row object of each distinct row value
DistinctIds(h, t) ==
  AtPositions(t.data,
              {i \in 1..Len(t.data) : \A j \in 1..(i - 1) : h[t.data[j]] # h[t.data[i]]}, 1)

\* DataTable.distinct
DistinctResult(h, t) == Selected(h, DistinctIds(h, t))

\* DataTable.duplicates: the rows whose key occurs more than once
DuplicatesResult(h, t, fields) ==
  IF \E i \in 1..Len(t.data) : ~HasFields(h[t.data[i]], fields)
  THEN Raised(h, "KeyError")
  ELSE Selected(h, SelectSeq(t.data,
         LAMBDA o : Cardinality({i \in 1..Len(t.data) :
                                   KeyOf(h[t.data[i]], fields) = KeyOf(h[o], fields)}) > 1))

\* DataTable.column: a DataColumn for a header of the table, else a NullColumn
IsNullColumn(t, header) == header \notin t.headers

\* DataColumn.__iter__ / NullColumn.__iter__
ColumnValues(h, t, header) ==
  IF IsNullColumn(t, header) THEN [raised |-> "none", val |-> <<>>]
  ELSE IF \E i \in 1..Len(t.data) : header \notin DOMAIN h[t.data[i]]
  THEN [raised |-> "KeyError", val |-> <<>>]
  ELSE [raised |-> "none", val |-> [i \in 1..Len(t.data) |-> h[t.data[i]][header]]]

\* DataColumn.sizeOfGroups / NullColumn.sizeOfGroups: value -> number of rows
SizeOfGroupsResult(h, t, header) ==
  LET c == ColumnValues(h, t, header)
  IN [raised |-> c.raised,
      val |-> [v \in Range(c.val) |-> Cardinality({i \in 1..Len(c.val) : c.val[i] = v})]]

\* the criterion of Column.filter is a record [kind, ...]: none, column,
\* predicate, collection or literal

MutPasses(row, header, crit, sameTable, otherValues) == row[header] = Null

\* DataColumn.__filter: the test a row passes, by the first case that applies
Passes(row, header, crit, sameTable, otherValues) ==
  IF crit.kind = "none" THEN row[header] = Null
  ELSE IF crit.kind = "column"
  THEN IF sameTable THEN row[header] = row[crit.header] ELSE row[header] \in otherValues
  ELSE IF crit.kind = "predicate" THEN row[header] \in crit.accepts
  ELSE IF crit.kind = "collection" THEN row[header] \in crit.members
  ELSE row[header] = crit.value

\* the headers DataColumn.__filter reads in each row
Reads(header, crit, sameTable) ==
  IF crit.kind = "column" /\ sameTable THEN {header, crit.header} ELSE {header}

\* Column.filter. NullColumn defines __filter too, but filter is DataColumn's
\* and calls DataColumn.__filter (the name is private to the class): a
\* NullColumn reads row[header] like a DataColumn does.
ColumnFilterResult(h, t, header, crit, sameTable, other) ==
  LET otherColumn == IF crit.kind = "column" /\ ~sameTable
                     THEN ColumnValues(h, other, crit.header)
                     ELSE [raised |-> "none", val |-> <<>>]
  IN IF otherColumn.raised # "none" THEN Raised(h, otherColumn.raised)
     ELSE IF \E i \in 1..Len(t.data) : ~(Reads(header, crit, sameTable) \subseteq DOMAIN h[t.data[i]])
     THEN Raised(h, "KeyError")
     ELSE Selected(h, SelectSeq(t.data,
            LAMBDA o : Passes(h[o], header, crit, sameTable, Range(otherColumn.val))))

\* mycmp of DataTable.sort on one value: None lowest, then cmp (numbers
\* before strings)
LessValue(x, y) ==
  /\ x # y
  /\ \/ x = Null
     \/ y # Null /\ (y = Blank \/ (x # Blank /\ x < y))

\* mycmp(row1, row2) < 0: decided by the first field that differs
RECURSIVE LessRow(_, _, _)
LessRow(row1, row2, fields) ==
  IF fields = <<>> THEN FALSE
  ELSE IF row1[Head(fields)] # row2[Head(fields)]
  THEN LessValue(row1[Head(fields)], row2[Head(fields)])
  ELSE LessRow(row1, row2, Tail(fields))

\* list.sort(cmp = mycmp) is stable: object o goes after the objects that
\* are smaller, or not greater and earlier
SortedData(h, data, fields) ==
  LET before(i, j) == \/ LessRow(h[data[i]], h[data[j]], fields)
                      \/ ~LessRow(h[data[j]], h[data[i]], fields) /\ i < j
      place(i) == 1 + Cardinality({j \in 1..Len(data) : j # i /\ before(j, i)})
  IN [k \in 1..Len(data) |-> data[CHOOSE i \in 1..Len(data) : place(i) = k]]

\* DataTable.sort (every row is compared on the first field)
SortResult(h, t, fields) ==
  IF Len(t.data) > 1 /\ \E i \in 1..Len(t.data) : ~HasFields(h[t.data[i]], fields)
  THEN [table |-> t, raised |-> "KeyError"]
  ELSE [table |-> [t EXCEPT !.data = SortedData(h, t.data, fields)], raised |-> "none"]

\* DataColumn.sort / NullColumn.sort
ColumnSortResult(h, t, header) ==
  IF IsNullColumn(t, header) THEN [table |-> t, raised |-> "none"]
  ELSE SortResult(h, t, <<header>>)

\* an aggregation is [out, method, field]: output field ->
\* AggregateMethods.Sum(field) or Count()

RECURSIVE SumSeq(_)
SumSeq(s) == IF s = <<>> THEN 0 ELSE Head(s) + SumSeq(Tail(s))

\* aggMethod(bucket) on the table of a bucket
Aggregated(bucket, agg) ==
  IF agg.method = "Count" THEN [raised |-> "none", val |-> Len(bucket.rows)]
  ELSE IF agg.field \notin bucket.headers THEN [raised |-> "none", val |-> 0]
  ELSE IF \E i \in 1..Len(bucket.rows) : bucket.rows[i][agg.field] \in {Null, Blank}
  THEN [raised |-> "TypeError", val |-> 0]
  ELSE [raised |-> "none", val |-> SumSeq([i \in 1..Len(bucket.rows) |-> bucket.rows[i][agg.field]])]

\* aggregate, tempIter: row = dict(zip(groupBy, key)); row[field] = aggMethod(bucket)
RECURSIVE AggregateRow(_, _, _)
AggregateRow(bucket, groupBy, aggs) ==
  IF aggs = <<>> THEN [x \in Range(groupBy) |-> bucket.key[Index(groupBy, x)]]
  ELSE Update(AggregateRow(bucket, groupBy, SubSeq(aggs, 1, Len(aggs) - 1)),
              [x \in {aggs[Len(aggs)].out} |-> Aggregated(bucket.table, aggs[Len(aggs)]).val])

\* DataTable.aggregate
AggregateResult(h, t, groupBy, aggs) ==
  IF aggs = <<>>
  THEN LET d == DivResult(h, t, groupBy)
       IN IF d.raised # "none" THEN Raised(h, d.raised)
          ELSE [heap |-> h, raised |-> "none", val |-> DistinctResult(d.heap, d.table).val]
  ELSE LET b == BucketResult(h, t, groupBy)
       IN IF b.raised # "none" THEN Raised(h, b.raised)
          ELSE IF \E k \in 1..Len(b.buckets), j \in 1..Len(aggs) :
                    Aggregated(b.buckets[k].table, aggs[j]).raised # "none"
          THEN Raised(b.heap, "TypeError")
          ELSE [heap |-> b.heap, raised |-> "none",
                val |-> TableOfRows([k \in 1..Len(b.buckets) |->
                                       AggregateRow(b.buckets[k], groupBy, aggs)])]

\* "if row[header]": None, '' and 0 are false
Truthy(v) == v \notin {Null, Blank, 0}

\* DataTable.removeBlankColumns, the loop over the rows from position i on
\* with the headers hs still blank: "none" when no header is left, else the
\* headers to remove
RECURSIVE BlankHeaders(_, _, _, _)
BlankHeaders(h, data, hs, i) ==
  IF i > Len(data) THEN [raised |-> "none", none |-> FALSE, headers |-> hs]
  ELSE IF ~(hs \subseteq DOMAIN h[data[i]])
  THEN [raised |-> "KeyError", none |-> FALSE, headers |-> hs]
  ELSE LET nonBlanks == {x \in hs : Truthy(h[data[i]][x])}
       IN IF nonBlanks # {} /\ hs \ nonBlanks = {}
          THEN [raised |-> "none", none |-> TRUE, headers |-> {}]
          ELSE BlankHeaders(h, data, hs \ nonBlanks, i + 1)

\* DataTable.removeBlankColumns: "return" (None) or "return self ^ headers"
RemoveBlankColumnsResult(h, t) ==
  LET b == BlankHeaders(h, t.data, t.headers, 1)
      x == XorResult(h, t, Sorted(b.headers))
  IN IF b.raised # "none" THEN [raised |-> b.raised, val |-> [none |-> FALSE, table |-> NoValue]]
     ELSE IF b.none THEN [raised |-> "none", val |-> [none |-> TRUE, table |-> NoValue]]
     ELSE [raised |-> x.raised, val |-> [none |-> FALSE, table |-> Value(x)]]

\* ------------------------------------------------------------------ diff
\* datatable_diff.diff: [b for b in buckets if b in table.headers()]
BucketHeaders(t, buckets) == SelectSeq(buckets, LAMBDA b : b \in t.headers)

CommonOtherHeaders(fromTable, toTable, buckets) ==
  Sorted((fromTable.headers \cap toTable.headers) \ Range(buckets))

OtherHeaders(t, buckets, common) ==
  SelectSeq(headers(t), LAMBDA x : x \notin Range(BucketHeaders(t, buckets)) /\ x \notin Range(common))

DiffHeadersList(fromTable, toTable, buckets) ==
  LET common == CommonOtherHeaders(fromTable, toTable, buckets)
  IN common \o OtherHeaders(fromTable, buckets, common) \o OtherHeaders(toTable, buckets, common)

\* datatable_diff._bucket: key -> the value tuples of the rows with that
\* key, in row order; a header a row lacks reads as None
DiffBucket(h, t, bucketHeaders, diffHeaders) ==
  LET keys == BucketKeys(h, t, bucketHeaders)
      value(o) == [k \in 1..Len(diffHeaders) |->
                     IF diffHeaders[k] \in DOMAIN h[o] THEN h[o][diffHeaders[k]] ELSE Null]
  IN [k \in 1..Len(keys) |->
        [key |-> keys[k],
         values |-> [j \in 1..Len(BucketIds(h, t, bucketHeaders, keys[k])) |->
                       value(BucketIds(h, t, bucketHeaders, keys[k])[j])]]]

\* datatable_util.sortKey: a key that puts None below every other value,
\* numbers in their order, strings after them
sortKey(v) == IF v = Null THEN <<0, 0>> ELSE IF v = Blank THEN <<2, 0>> ELSE <<1, v>>

\* tuple(sortKey(i) for i in s) < tuple(sortKey(i) for i in o): decided by
\* the first position that differs, a proper prefix is smaller
RECURSIVE LessKeys(_, _)
LessKeys(s, o) ==
  IF o = <<>> THEN FALSE
  ELSE IF s = <<>> THEN TRUE
  ELSE IF Head(s) # Head(o)
  THEN \/ sortKey(Head(s))[1] < sortKey(Head(o))[1]
       \/ sortKey(Head(s))[1] = sortKey(Head(o))[1] /\ sortKey(Head(s))[2] < sortKey(Head(o))[2]
  ELSE LessKeys(Tail(s), Tail(o))

MutSortedBucket(values) == values

\* sorted(bucket, key = sortRowKey) is stable: a value tuple goes after the
\* tuples that are smaller, or equal and earlier
SortedBucket(values) ==
  LET before(i, j) == \/ LessKeys(values[i], values[j])
                      \/ ~LessKeys(values[j], values[i]) /\ i < j
      place(i) == 1 + Cardinality({j \in 1..Len(values) : j # i /\ before(j, i)})
  IN [k \in 1..Len(values) |-> values[CHOOSE i \in 1..Len(values) : place(i) = k]]

\* Result.__init__: fromRow and toRow are lists of value tuples, <<>> stands
\* for None; data maps the positions where one from-row and one to-row
\* differ to (f, t).  Index i of the code is position i + 1 here.
NewResult(key, fromRow, toRow) ==
  [key |-> key, fromRow |-> fromRow, toRow |-> toRow,
   data |-> IF Len(fromRow) = 1 /\ Len(toRow) = 1
            THEN [i \in {i \in 1..Len(fromRow[1]) : fromRow[1][i] # toRow[1][i]} |->
                    <<fromRow[1][i], toRow[1][i]>>]
            ELSE <<>>]

MutSignificant(r) == DOMAIN r.data # {}

\* Result.__bool__
Significant(r) ==
  \/ DOMAIN r.data # {}
  \/ r.fromRow = <<>>
  \/ r.toRow = <<>>
  \/ Len(r.fromRow) # Len(r.toRow)

\* ResultSet.__iadd__ for each Result of a list in turn: a Result that is
\* not significant is dropped, another is appended to the list of its key.
\* A ResultSet is [made, keyFields, diffFields, results, data]: results
\* holds the Result objects, data is the dict key -> list of object ids in
\* insertion order; filtered is the dict of the ResultSet that filter
\* returned, whose lists hold ids of the same Result objects.
RECURSIVE Added(_, _)
Added(set, new) ==
  IF new = <<>> THEN set
  ELSE LET r == Head(new)
           id == Len(set.results) + 1
           held == \E k \in 1..Len(set.data) : set.data[k].key = r.key
           data == IF held
                   THEN [k \in 1..Len(set.data) |->
                           IF set.data[k].key = r.key
                           THEN [key |-> r.key, list |-> Append(set.data[k].list, id)]
                           ELSE set.data[k]]
                   ELSE Append(set.data, [key |-> r.key, list |-> <<id>>])
       IN IF Significant(r)
          THEN Added([set EXCEPT !.results = Append(@, r), !.data = data], Tail(new))
          ELSE Added(set, Tail(new))

\* the loop of datatable_diff.diff over allKeys from position k on: the
\* Results made for each key, in turn
RECURSIVE DiffResults(_, _, _, _)
DiffResults(allKeys, fromBuckets, toBuckets, k) ==
  IF k > Len(allKeys) THEN <<>>
  ELSE LET key == allKeys[k]
           f == SelectSeq(fromBuckets, LAMBDA b : b.key = key)
           t == SelectSeq(toBuckets, LAMBDA b : b.key = key)
           fromBucket == IF f # <<>> THEN SortedBucket(f[1].values) ELSE <<>>
           toBucket == IF t # <<>> THEN SortedBucket(t[1].values) ELSE <<>>
           made == IF fromBucket # <<>> /\ toBucket # <<>> /\ Len(fromBucket) = Len(toBucket)
                   THEN [i \in 1..Len(fromBucket) |->
                           NewResult(key, <<fromBucket[i]>>, <<toBucket[i]>>)]
                   ELSE <<NewResult(key, fromBucket, toBucket)>>
       IN made \o DiffResults(allKeys, fromBuckets, toBuckets, k + 1)

\* datatable_diff.diff: the tables are only read.  allKeys is a set; its
\* keys are taken in the order of their first row, from-table first.
DiffResult(h, fromTable, toTable, buckets) ==
  LET list == DiffHeadersList(fromTable, toTable, buckets)
      lacks(t) == \E i \in 1..Len(t.data) : ~HasFields(h[t.data[i]], BucketHeaders(t, buckets))
      fromBuckets == DiffBucket(h, fromTable, BucketHeaders(fromTable, buckets), list)
      toBuckets == DiffBucket(h, toTable, BucketHeaders(toTable, buckets), list)
      allKeys == Distinct([k \in 1..Len(fromBuckets) |-> fromBuckets[k].key]
                            \o [k \in 1..Len(toBuckets) |-> toBuckets[k].key], {})
      results == [made |-> TRUE, keyFields |-> buckets, diffFields |-> list,
                  results |-> <<>>, data |-> <<>>, filtered |-> [made |-> FALSE, data |-> <<>>]]
  IN IF lacks(fromTable) \/ lacks(toTable)
     THEN [heap |-> h, raised |-> "KeyError", val |-> <<>>]
     ELSE [heap |-> h, raised |-> "none",
           val |-> Added(results, DiffResults(allKeys, fromBuckets, toBuckets, 1))]

MutSuppressed(r, call, set) ==
  IF Len(r.fromRow) = 1 /\ Len(r.toRow) = 1 THEN [raised |-> "none", r |-> r]
  ELSE [raised |-> "SuppressionPreconditionError", r |-> r]

\* Result.ignoreField, checkRemove, checkRemove_multiField, customCheck on
\* the Result r.  A call is [op, fields, pred]; filterMethod is given by
\* pred: it holds for every argument (all) or for the (f, t) pairs listed.
\* self.diffFields[field] raises KeyError for a field that was not diffed.
Suppressed(r, call, set) ==
  LET known == \A k \in 1..Len(call.fields) : call.fields[k] \in Range(set.diffFields)
      idxs == {Index(set.diffFields, call.fields[k]) : k \in 1..Len(call.fields)}
      single == Len(r.fromRow) = 1 /\ Len(r.toRow) = 1
      without == [r EXCEPT !.data = Restrict(r.data, DOMAIN r.data \ idxs)]
      holds == \/ call.pred.all
               \/ call.op = "checkRemove" /\ \E i \in idxs : r.data[i] \in call.pred.pairs
  IN CASE call.op = "ignoreField" ->
            IF ~known THEN [raised |-> "KeyError", r |-> r]
            ELSE [raised |-> "none", r |-> without]
       [] call.op = "checkRemove" ->
            IF ~known THEN [raised |-> "KeyError", r |-> r]
            ELSE IF idxs \subseteq DOMAIN r.data /\ holds THEN [raised |-> "none", r |-> without]
            ELSE [raised |-> "none", r |-> r]
       [] call.op = "checkRemove_multiField" ->
            IF ~known THEN [raised |-> "KeyError", r |-> r]
            ELSE IF idxs \subseteq DOMAIN r.data /\ holds THEN [raised |-> "none", r |-> without]
            ELSE [raised |-> "none", r |-> r]
       [] call.op = "customCheck" ->
            IF ~single \/ ~holds THEN [raised |-> "none", r |-> r]
            ELSE IF ~known THEN [raised |-> "KeyError", r |-> r]
            ELSE [raised |-> "none", r |-> without]

MutDeleted(set, id) == [raised |-> "none", set |-> set]

\* ResultSet.__delitem__(result): list.remove takes out the first element
\* that equals the Result (Result.__eq__: same key and same data), and
\* the key goes with its last element
Deleted(set, id) ==
  LET r == set.results[id]
      equal(x) == set.results[x].key = r.key /\ set.results[x].data = r.data
      k == CHOOSE k \in 1..Len(set.data) : set.data[k].key = r.key
      list == set.data[k].list
      at == CHOOSE i \in 1..Len(list) : equal(list[i]) /\ \A n \in 1..(i - 1) : ~equal(list[n])
      rest == SelectSeq([i \in 1..Len(list) |-> IF i = at THEN 0 ELSE list[i]], LAMBDA x : x # 0)
  IN IF ~\E n \in 1..Len(set.data) :
            /\ set.data[n].key = r.key
            /\ \E i \in 1..Len(set.data[n].list) : equal(set.data[n].list[i])
     THEN [raised |-> "ValueError", set |-> set]
     ELSE IF rest = <<>>
     THEN [raised |-> "none",
           set |-> [set EXCEPT !.data = SelectSeq(set.data, LAMBDA e : e.key # r.key)]]
     ELSE [raised |-> "none", set |-> [set EXCEPT !.data[k].list = rest]]

\* for result in list(self): result.<call>; if not result: del self[result]
RECURSIVE SuppressLoop(_, _, _)
SuppressLoop(set, ids, call) ==
  IF ids = <<>> THEN [raised |-> "none", set |-> set]
  ELSE LET s == Suppressed(set.results[Head(ids)], call, set)
           changed == [set EXCEPT !.results[Head(ids)] = s.r]
           d == Deleted(changed, Head(ids))
       IN IF s.raised # "none" THEN [raised |-> s.raised, set |-> set]
          ELSE IF Significant(s.r) THEN SuppressLoop(changed, Tail(ids), call)
          ELSE IF d.raised # "none" THEN [raised |-> d.raised, set |-> changed]
          ELSE SuppressLoop(d.set, Tail(ids), call)

\* ResultSet.__iter__: the Results of the lists of data, in turn
RECURSIVE Held(_)
Held(data) == IF data = <<>> THEN <<>> ELSE Head(data).list \o Held(Tail(data))

\* ResultSet.filter: for result in self: if criteria(result): newResults +=
\* result.  The new dict gets the Result objects themselves; criteria is
\* given by crit: it holds for every Result (all) or for those of the keys
\* listed.
RECURSIVE FilterData(_, _, _, _)
FilterData(set, ids, crit, data) ==
  IF ids = <<>> THEN data
  ELSE LET r == set.results[Head(ids)]
           held == \E k \in 1..Len(data) : data[k].key = r.key
           more == IF held
                   THEN [k \in 1..Len(data) |->
                           IF data[k].key = r.key
                           THEN [key |-> r.key, list |-> Append(data[k].list, Head(ids))]
                           ELSE data[k]]
                   ELSE Append(data, [key |-> r.key, list |-> <<Head(ids)>>])
       IN IF (crit.all \/ r.key \in crit.keys) /\ Significant(r)
          THEN FilterData(set, Tail(ids), crit, more)
          ELSE FilterData(set, Tail(ids), crit, data)

\* Result.__lt__(r1, r2): 0 for equal Results; else the first pair of the
\* keys and then of data.get(k) over the union of the indices that differs
\* decides by the sort keys of its two sides, and iterating a side that is
\* None raises TypeError
ResultLt(r1, r2) ==
  LET union == (DOMAIN r1.data) \cup (DOMAIN r2.data)
      get(r, k) == IF k \in DOMAIN r.data THEN r.data[k] ELSE <<>>
      differ == {k \in union : get(r1, k) # get(r2, k)}
      k == CHOOSE k \in differ : \A n \in differ : k <= n
  IN IF r1.key = r2.key /\ r1.data = r2.data THEN [raised |-> "none", val |-> FALSE]
     ELSE IF r1.key # r2.key THEN [raised |-> "none", val |-> LessKeys(r1.key, r2.key)]
     ELSE IF k \notin DOMAIN r1.data \/ k \notin DOMAIN r2.data
     THEN [raised |-> "TypeError", val |-> FALSE]
     ELSE [raised |-> "none", val |-> LessKeys(r1.data[k], r2.data[k])]

\* ------------------------------------------------------------------ join
\* joinParams is [kind, items]: absent, something that is no dict, or a dict
\* given by its items (self field, other field)

SelfFields(jp) == [k \in 1..Len(jp.items) |-> jp.items[k][1]]
OtherFields(jp) == [k \in 1..Len(jp.items) |-> jp.items[k][2]]

\* newHeaders = other.headers(); for header in joinParams.values():
\* newHeaders.remove(header): ValueError when header is not (any more) there
RECURSIVE RemoveHeaders(_, _)
RemoveHeaders(hs, fields) ==
  IF fields = <<>> THEN [headers |-> hs, raised |-> "none"]
  ELSE IF \A k \in 1..Len(hs) : hs[k] # Head(fields)
  THEN [headers |-> hs, raised |-> "ValueError"]
  ELSE RemoveHeaders(RemoveAt(hs, Index(hs, Head(fields))), Tail(fields))

\* newRow[otherFieldPrefix + header] = values[header] for header in newHeaders
WithOther(newRow, prefix, newHeaders, values) ==
  Update(newRow, [x \in {prefix \o hd : hd \in Range(newHeaders)} |->
                    values[CHOOSE hd \in Range(newHeaders) : prefix \o hd = x]])

\* tempJoin, the rows yielded for one row of self
JoinedRows(row, jp, prefix, leftJoin, newHeaders, buckets) ==
  LET key == KeyOf(row, SelfFields(jp))
      otherRows == Lookup(buckets, key).rows
  IN IF ~HasKey(buckets, key)
     THEN IF leftJoin THEN <<WithOther(row, prefix, newHeaders, [hd \in Range(newHeaders) |-> Null])>> ELSE <<>>
     ELSE [j \in 1..Len(otherRows) |->
             WithOther(row, prefix, newHeaders, otherRows[j])]

\* tempJoin, the loop over self's rows from position i on
RECURSIVE LeftPart(_, _, _, _, _, _, _)
LeftPart(rows, jp, prefix, leftJoin, newHeaders, buckets, i) ==
  IF i > Len(rows) THEN [rows |-> <<>>, raised |-> "none"]
  ELSE IF ~HasFields(rows[i], SelfFields(jp))
  THEN [rows |-> <<>>, raised |-> "KeyError"]
  ELSE IF \E hd \in Range(newHeaders) :
            hd \notin Lookup(buckets, KeyOf(rows[i], SelfFields(jp))).headers
            /\ HasKey(buckets, KeyOf(rows[i], SelfFields(jp)))
  THEN [rows |-> <<>>, raised |-> "KeyError"]
  ELSE LET rest == LeftPart(rows, jp, prefix, leftJoin, newHeaders, buckets, i + 1)
       IN [rows |-> JoinedRows(rows[i], jp, prefix, leftJoin, newHeaders, buckets) \o rest.rows,
           raised |-> rest.raised]

\* tempJoin, the row yielded for a row of other whose key was not seen
RightRow(otherRow, prefix, selfHeaders) ==
  Update([x \in {prefix \o k : k \in DOMAIN otherRow} |->
            otherRow[CHOOSE k \in DOMAIN otherRow : prefix \o k = x]],
         [x \in Range(selfHeaders) |-> Null])

\* tempJoin, "if rightJoin: for otherRow in other: ..."
RECURSIVE RightPart(_, _, _, _, _, _)
RightPart(otherRows, jp, prefix, selfHeaders, seenKeys, i) ==
  IF i > Len(otherRows) THEN [rows |-> <<>>, raised |-> "none"]
  ELSE IF ~HasFields(otherRows[i], OtherFields(jp))
  THEN [rows |-> <<>>, raised |-> "KeyError"]
  ELSE LET rest == RightPart(otherRows, jp, prefix, selfHeaders, seenKeys, i + 1)
       IN [rows |-> (IF KeyOf(otherRows[i], OtherFields(jp)) \in seenKeys THEN <<>>
                     ELSE <<RightRow(otherRows[i], prefix, selfHeaders)>>) \o rest.rows,
           raised |-> rest.raised]

\* DataTable.join: the heap after the call, the error raised, the table returned
JoinResult(h, self, other, jp, prefix, leftJoin, rightJoin) ==
  LET nh == RemoveHeaders(headers(other), OtherFields(jp))
      b == BucketResult(h, other, OtherFields(jp))
      selfRows == Rows(b.heap, self)
      left == LeftPart(selfRows, jp, prefix, leftJoin, nh.headers, b.buckets, 1)
      seen == {KeyOf(selfRows[i], SelfFields(jp)) : i \in 1..Len(selfRows)}
      right == IF rightJoin
               THEN RightPart(Rows(b.heap, other), jp, prefix, headers(self), seen, 1)
               ELSE [rows |-> <<>>, raised |-> "none"]
  IN IF jp.kind = "missing" THEN [heap |-> h, raised |-> "TypeError", val |-> NoValue]
     ELSE IF jp.kind # "dict" THEN [heap |-> h, raised |-> "InvalidJoinSpec", val |-> NoValue]
     ELSE IF nh.raised # "none" THEN [heap |-> h, raised |-> nh.raised, val |-> NoValue]
     ELSE IF b.raised # "none" THEN [heap |-> h, raised |-> b.raised, val |-> NoValue]
     ELSE IF left.raised # "none" THEN [heap |-> b.heap, raised |-> left.raised, val |-> NoValue]
     ELSE IF right.raised # "none" THEN [heap |-> b.heap, raised |-> right.raised, val |-> NoValue]
     ELSE [heap |-> b.heap, raised |-> "none", val |-> TableOfRows(left.rows \o right.rows)]

\* ------------------------------------------------------------ initial state
\* The constructor's inputs: DataTable(), a sequence of dicts, or a header
\* row followed by value rows.
NoInput == [form |-> "none", hdrs |-> <<>>, rows |-> <<>>]
DictInput(rows) == [form |-> "dicts", hdrs |-> <<>>, rows |-> rows]
ListInput(hdrs, rows) == [form |-> "lists", hdrs |-> hdrs, rows |-> rows]

\* DataTable.__init__ dispatching on its argument; the input dicts are
\* objects of the caller, placed in the heap for the call
Build(h, inp) ==
  IF inp.form = "none" \/ (inp.form = "dicts" /\ inp.rows = <<>>)
  THEN [heap |-> h, table |-> EmptyTable]
  ELSE IF inp.form = "dicts"
  THEN LET tmp == Fresh(h, Len(inp.rows))
       IN InitFromDicts(Store(h, tmp, inp.rows), tmp)
  ELSE InitFromLists(h, inp.hdrs, inp.rows)

\* the state after A = DataTable(ia); B = DataTable(ib); C = DataTable()
Built(ia, ib) ==
  LET a == Build(EmptyHeap, ia)
      ha == Restrict(a.heap, Range(a.table.data))
      b == Build(ha, ib)
      tb == [n \in Names |-> IF n = "A" THEN a.table ELSE IF n = "B" THEN b.table ELSE EmptyTable]
  IN Collect(b.heap, tb)

InitWith(SA, SB) ==
  \E ia \in SA, ib \in SB :
    /\ heap = Built(ia, ib).heap
    /\ tabs = Built(ia, ib).tabs
    /\ cref = "C"
    /\ last = NoCall
    /\ steps = 0
    /\ rs = [made |-> FALSE, keyFields |-> <<>>, diffFields |-> <<>>, results |-> <<>>,
             data |-> <<>>, filtered |-> [made |-> FALSE, data |-> <<>>]]

SeqsUpTo(S, n) == UNION {[1..k -> S] : k \in 0..n}

\* the operator state machine starts from these inputs
Init ==
  LET InputsA == { DictInput(<<[a |-> 1], [a |-> 1]>>),
                   DictInput(<<[a |-> 1], [b |-> 2]>>),
                   ListInput(<<"a", "b">>, <<>>) }
      InputsB == { DictInput(<<[a |-> 1]>>),
                   DictInput(<<[b |-> 2]>>),
                   DictInput(<<[a |-> 1], [a |-> 2]>>) }
  IN InitWith(InputsA, InputsB)

\* ------------------------------------------------------------------ actions
\* one call of a sequence of at most MaxSteps calls
Step(call) ==
  /\ steps < MaxSteps
  /\ steps' = steps + 1
  /\ last' = call
  /\ UNCHANGED rs

\* one call of a method that is no in-place operator, made after the
\* in-place calls (if any)
Once(call) ==
  /\ last.op \in {"init", "iadd", "isub", "iand", "ixor", "idiv"}
  /\ last' = call
  /\ UNCHANGED steps

\* t += u
IAdd(t, u) ==
  LET r == IAddResult(Tab(t), Tab(u))
  IN /\ Step(Call("iadd", t, u, <<>>, r.raised, <<>>))
     /\ Commit(heap, [tabs EXCEPT ![Ref(t)] = r.table])
     /\ UNCHANGED cref

\* t -= u
ISub(t, u) ==
  /\ Step(Call("isub", t, u, <<>>, "none", <<>>))
  /\ Commit(heap, [tabs EXCEPT ![Ref(t)] = ISubResult(heap, Tab(t), Tab(u), Ref(t) = Ref(u))])
  /\ UNCHANGED cref

\* t &= m
IAnd(t, m) ==
  LET r == IAndResult(heap, Tab(t), m)
  IN /\ Step(Call("iand", t, "", m, "none", <<>>))
     /\ Commit(r.heap, [tabs EXCEPT ![Ref(t)] = r.table])
     /\ UNCHANGED cref

\* t ^= names
IXor(t, names) ==
  LET r == IXorResult(heap, Tab(t), names)
  IN /\ Step(Call("ixor", t, "", names, r.raised, <<>>))
     /\ Commit(r.heap, [tabs EXCEPT ![Ref(t)] = r.table])
     /\ UNCHANGED cref

\* t /= names
IDiv(t, names) ==
  LET r == IDivResult(heap, Tab(t), names)
  IN /\ Step(Call("idiv", t, "", names, r.raised, <<>>))
     /\ Commit(r.heap, [tabs EXCEPT ![Ref(t)] = r.table])
     /\ UNCHANGED cref

AndArgs == {[a |-> 1], [b |-> Blank]}
NameArgs == {<<"a">>, <<"b">>}

Next ==
  \/ \E t \in Names, u \in Names : IAdd(t, u)
  \/ \E t \in Names, u \in Names : ISub(t, u)
  \/ \E t \in Names, m \in AndArgs : IAnd(t, m)
  \/ \E t \in Names, s \in NameArgs : IXor(t, s)
  \/ \E t \in Names, s \in NameArgs : IDiv(t, s)

Spec == Init /\ [][Next]_vars

\* ------------------------------------------- the non-mutating operators
\* C = <result>: the name C is bound to the table the call returned; a call
\* that raised leaves C as it was
Bind(r, to) ==
  /\ IF r.raised # "none" THEN UNCHANGED <<heap, tabs, cref>>
     ELSE /\ cref' = to
          /\ Commit(r.heap, [tabs EXCEPT !["C"] = IF to = "C" THEN r.table ELSE EmptyTable])
  /\ UNCHANGED rs

\* C = t + u
Add(t, u) ==
  LET r == AddResult(heap, Tab(t), Tab(u))
  IN Once(Call("add", t, u, <<>>, r.raised, <<>>)) /\ Bind(r, "C")

\* C = t - u
Sub(t, u) ==
  LET r == SubResult(heap, Tab(t), Tab(u))
  IN Once(Call("sub", t, u, <<>>, r.raised, <<>>)) /\ Bind(r, "C")

\* C = t & m
And(t, m) ==
  LET r == AndResult(heap, Tab(t), m)
  IN Once(Call("and", t, "", m, r.raised, <<>>)) /\ Bind(r, "C")

\* C = t ^ names
Xor(t, names) ==
  LET r == XorResult(heap, Tab(t), names)
  IN Once(Call("xor", t, "", names, r.raised, <<>>)) /\ Bind(r, "C")

\* C = t / names
Div(t, names) ==
  LET r == DivResult(heap, Tab(t), names)
  IN Once(Call("div", t, "", names, r.raised, <<>>)) /\ Bind(r, "C")

\* C = t.augment(u)
Augment(t, u) ==
  LET r == AugmentResult(heap, Tab(t), Tab(u))
  IN /\ Once(Call("augment", t, u, <<>>, r.raised, <<>>))
     /\ Bind(r, IF r.same = "self" THEN Ref(t) ELSE IF r.same = "other" THEN Ref(u) ELSE "C")

\* inputs of the non-mutating operators: every short sequence of these dicts,
\* DataTable(), and header rows without value rows
OpsInputsB ==
  LET RowsB == {[a |-> 1], [b |-> 2], [a |-> 1, b |-> 2]}
  IN {DictInput(rows) : rows \in SeqsUpTo(RowsB, MaxRowsB)} \cup {ListInput(<<"a">>, <<>>)}

NameLists == {<<"a">>, <<"b">>, <<"a", "b">>}

InitOps ==
  LET RowsA == {[a |-> 1], [a |-> 2], [a |-> 1, b |-> 2]}
      OpsInputsA == {DictInput(rows) : rows \in SeqsUpTo(RowsA, MaxRowsA)}
                      \cup {ListInput(<<"a", "b">>, <<>>)}
  IN InitWith(OpsInputsA, OpsInputsB)

NextOps ==
  \/ \E t \in Operands, u \in Operands : Add(t, u)
  \/ \E t \in Operands, u \in Operands : Sub(t, u)
  \/ \E t \in Operands, m \in AndArgs : And(t, m)
  \/ \E t \in Operands, s \in NameLists : Xor(t, s)
  \/ \E t \in Operands, s \in NameLists : Div(t, s)
  \/ \E t \in Operands, u \in Operands : Augment(t, u)

SpecOps == InitOps /\ [][NextOps]_vars

\* t.column(header).set(value): self.__dataTable &= {self.header: value}
ColumnSet(t, header, value) ==
  LET r == IAndResult(heap, Tab(t), [x \in {header} |-> value])
  IN /\ Step(Call("set", t, "", [header |-> header, value |-> value], "none", <<>>))
     /\ Commit(r.heap, [tabs EXCEPT ![Ref(t)] = r.table])
     /\ UNCHANGED cref

\* t.fillDownBlanks(): for each header the column's fillDownBlanks, whose
\* range(len(self)) raises TypeError, a DataColumn having no __len__
FillDownBlanks(t) ==
  /\ Step(Call("fillDownBlanks", t, "", <<>>,
               IF Tab(t).headers = {} THEN "none" ELSE "TypeError", <<>>))
  /\ UNCHANGED <<heap, tabs, cref>>

\* C is computed from A and B by a non-mutating operator and mutated in
\* place
NextShare ==
  \/ NextOps
  \/ \E m \in AndArgs : IAnd("C", m)
  \/ \E s \in NameArgs : IXor("C", s)
  \/ \E s \in NameArgs : IDiv("C", s)
  \/ \E header \in {"a", "c"} : ColumnSet("C", header, 2)
  \/ FillDownBlanks("C")

SpecShare == Init /\ [][NextShare]_vars

\* C = t.join(u, jp, prefix, leftJoin, rightJoin); the returned table is
\* recorded by value
Join(t, u, jp, prefix, leftJoin, rightJoin) ==
  LET r == JoinResult(heap, Tab(t), Tab(u), jp, prefix, leftJoin, rightJoin)
      arg == [params |-> jp, prefix |-> prefix, leftJoin |-> leftJoin, rightJoin |-> rightJoin]
  IN /\ Once(Call("join", t, u, arg, r.raised, r.val))
     /\ Commit(r.heap, tabs)
     /\ UNCHANGED <<cref, rs>>

\* inputs of join: self has the fields a, b and other the fields a, c
InitJoin ==
  LET JoinRowsA == {[a |-> 1, b |-> 1], [a |-> 2, b |-> 2]}
      JoinRowsB == {[a |-> 1, c |-> 1], [a |-> 1, c |-> 2], [a |-> 3, c |-> 1]}
      JoinInputsA == {DictInput(rows) : rows \in SeqsUpTo(JoinRowsA, MaxRowsA)}
                       \cup {ListInput(<<"a", "b">>, <<>>)}
      JoinInputsB == {DictInput(rows) : rows \in SeqsUpTo(JoinRowsB, MaxRowsB)}
                       \cup {ListInput(<<"a", "c">>, <<>>)}
  IN InitWith(JoinInputsA, JoinInputsB)

NextJoin ==
  LET JoinSpecs == { [kind |-> "missing", items |-> <<>>],
                     [kind |-> "list", items |-> <<<<"a", "a">>>>],
                     [kind |-> "dict", items |-> <<>>],
                     [kind |-> "dict", items |-> <<<<"a", "a">>>>],
                     [kind |-> "dict", items |-> <<<<"b", "c">>>>],
                     [kind |-> "dict", items |-> <<<<"a", "a">>, <<"b", "c">>>>] }
      Prefixes == {"", "o_"}
  IN \E jp \in JoinSpecs, prefix \in Prefixes, leftJoin \in BOOLEAN, rightJoin \in BOOLEAN :
       Join("A", "B", jp, prefix, leftJoin, rightJoin)

SpecJoin == InitJoin /\ [][NextJoin]_vars

\* a reader returned r: its value is recorded, the objects it wrote stay
Read(r) ==
  /\ Commit(r.heap, tabs)
  /\ UNCHANGED <<cref, rs>>

\* t.filter(f)
Filter(t, f) ==
  LET r == FilterResult(heap, Tab(t), f)
  IN Once(Call("filter", t, "", f, r.raised, r.val)) /\ Read(r)

\* t.column(header).filter(crit)
ColumnFilter(t, header, crit) ==
  LET sameTable == crit.kind = "column" /\ Ref(crit.table) = Ref(t)
      other == IF crit.kind = "column" THEN Tab(crit.table) ELSE EmptyTable
      r == ColumnFilterResult(heap, Tab(t), header, crit, sameTable, other)
  IN Once(Call("colfilter", t, "", [header |-> header, crit |-> crit], r.raised, r.val)) /\ Read(r)

\* t.bucket(*fields)
Bucket(t, fields) ==
  LET r == BucketResult(heap, Tab(t), fields)
  IN Once(Call("bucket", t, "", fields, r.raised, r.buckets)) /\ Read(r)

\* t.aggregate(groupBy, aggs)
Aggregate(t, groupBy, aggs) ==
  LET r == AggregateResult(heap, Tab(t), groupBy, aggs)
  IN Once(Call("aggregate", t, "", [groupBy |-> groupBy, aggs |-> aggs], r.raised, r.val)) /\ Read(r)

\* t.distinct()
distinct(t) ==
  LET r == DistinctResult(heap, Tab(t))
  IN Once(Call("distinct", t, "", <<>>, r.raised, r.val)) /\ Read(r)

\* t.duplicates(*fields)
Duplicates(t, fields) ==
  LET r == DuplicatesResult(heap, Tab(t), fields)
  IN Once(Call("duplicates", t, "", fields, r.raised, r.val)) /\ Read(r)

\* diff(t, u, *buckets)
Diff(t, u, buckets) ==
  LET r == DiffResult(heap, Tab(t), Tab(u), buckets)
  IN /\ Once(Call("diff", t, u, buckets, r.raised, <<>>))
     /\ rs' = IF r.raised = "none" THEN r.val ELSE rs
     /\ Commit(r.heap, tabs)
     /\ UNCHANGED cref

\* the readers after at most MaxSteps calls of +=
NextRead ==
  \/ \E t \in Names, u \in Names : IAdd(t, u)
  \/ \E t \in Names, f \in {[kind |-> "function", match |-> EmptyRow],
                            [kind |-> "dict", match |-> [a |-> 1]]} : Filter(t, f)
  \/ \E t \in Names, crit \in {[kind |-> "none"], [kind |-> "literal", value |-> 1]} : ColumnFilter(t, "a", crit)
  \/ \E t \in Names, fields \in {<<>>, <<"a">>} : Bucket(t, fields)
  \/ \E t \in Names, aggs \in {<<>>, <<[out |-> "b", method |-> "Sum", field |-> "b"]>>} : Aggregate(t, <<"a">>, aggs)
  \/ \E t \in Names : distinct(t)
  \/ \E t \in Names : Duplicates(t, <<"a">>)
  \/ \E t \in Names, u \in Names : Join(t, u, [kind |-> "dict", items |-> <<<<"a", "a">>>>], "o_", TRUE, FALSE)
  \/ \E t \in Names, u \in Names : Diff(t, u, <<"a">>)

SpecRead == Init /\ [][NextRead]_vars

\* inputs of the queries: rows with the fields a, b holding numbers
InitQuery ==
  LET QueryRowsA == {[a |-> 1, b |-> 1], [a |-> 1, b |-> 2], [a |-> 2, b |-> 1]}
      QueryInputsA == {DictInput(rows) : rows \in SeqsUpTo(QueryRowsA, MaxRowsA)}
                        \cup {ListInput(<<"a", "b">>, <<>>)}
  IN InitWith(QueryInputsA, OpsInputsB)

\* one query on freshly built tables
NextQuery ==
  LET Aggregations == {<<>>,
                       <<[out |-> "b", method |-> "Sum", field |-> "b"]>>,
                       <<[out |-> "c", method |-> "Sum", field |-> "b"],
                         [out |-> "b", method |-> "Count", field |-> ""]>>}
  IN
  \/ \E t \in Operands, f \in {[kind |-> "function", match |-> EmptyRow],
                              [kind |-> "dict", match |-> [a |-> 1]],
                              [kind |-> "dict", match |-> [a |-> 1, b |-> 2]]} :
       Filter(t, f)
  \/ \E t \in Operands, fields \in {<<>>, <<"a">>, <<"a", "b">>} : Bucket(t, fields)
  \/ \E t \in Operands, groupBy \in {<<"a">>, <<"a", "b">>}, aggs \in Aggregations :
       Aggregate(t, groupBy, aggs)
  \/ \E t \in Operands : distinct(t)
  \/ \E t \in Operands, fields \in {<<"a">>, <<"a", "b">>} : Duplicates(t, fields)

SpecQuery == InitQuery /\ [][NextQuery]_vars

\* t.removeBlankColumns()
RemoveBlankColumns(t) ==
  LET r == RemoveBlankColumnsResult(heap, Tab(t))
  IN /\ Once(Call("removeBlankColumns", t, "", <<>>, r.raised, r.val))
     /\ UNCHANGED <<heap, tabs, cref, rs>>

\* inputs with blank cells
InitBlank ==
  LET BlankRows == {[a |-> 1, b |-> Blank], [a |-> Blank, b |-> Blank],
                    [a |-> 2, b |-> Null], [a |-> 1, b |-> 2]}
      BlankInputs == {DictInput(rows) : rows \in SeqsUpTo(BlankRows, MaxRowsA)}
                       \cup {ListInput(<<"a", "b">>, <<>>)}
  IN InitWith(BlankInputs, {NoInput})

NextBlank == \E t \in Operands : RemoveBlankColumns(t)

SpecBlank == InitBlank /\ [][NextBlank]_vars

\* for v in t.column(header)
Iterate(t, header) ==
  LET r == ColumnValues(heap, Tab(t), header)
  IN /\ Once(Call("iter", t, "", [header |-> header], r.raised, r.val))
     /\ UNCHANGED <<heap, tabs, cref, rs>>

\* t.column(header).sizeOfGroups()
SizeOfGroups(t, header) ==
  LET r == SizeOfGroupsResult(heap, Tab(t), header)
  IN /\ Once(Call("sizeOfGroups", t, "", [header |-> header], r.raised, r.val))
     /\ UNCHANGED <<heap, tabs, cref, rs>>

\* t.column(header).sort()
ColumnSort(t, header) ==
  LET r == ColumnSortResult(heap, Tab(t), header)
  IN /\ Once(Call("colsort", t, "", [header |-> header], r.raised, <<>>))
     /\ Commit(heap, [tabs EXCEPT ![Ref(t)] = r.table])
     /\ UNCHANGED <<cref, rs>>

\* the criteria of Column.filter are one or more of each kind
NextColumn ==
  LET Criteria == {[kind |-> "none"], [kind |-> "predicate", accepts |-> {1}],
                   [kind |-> "collection", members |-> {1, 2}],
                   [kind |-> "literal", value |-> 1]}
                    \cup {[kind |-> "column", table |-> u, header |-> x] : u \in Operands, x \in {"a", "c"}}
      ColumnNames == {"a", "b", "c"}
  IN
  \/ \E t \in Operands, header \in ColumnNames : Iterate(t, header)
  \/ \E t \in Operands, header \in ColumnNames : SizeOfGroups(t, header)
  \/ \E t \in Operands, header \in ColumnNames : ColumnSort(t, header)
  \/ \E t \in Operands, header \in ColumnNames, crit \in Criteria : ColumnFilter(t, header, crit)

SpecColumn == InitOps /\ [][NextColumn]_vars

\* ------------------------------------------------------------------ diff calls
\* one suppression call on the ResultSet that diff returned; an exception
\* leaves the Results as they were when it was raised
Suppress(call) ==
  LET r == SuppressLoop(rs, Held(rs.data), call)
  IN /\ steps < MaxSteps
     /\ steps' = steps + 1
     /\ last' = Call(call.op, "", "", call, r.raised, <<>>)
     /\ rs' = r.set
     /\ UNCHANGED <<heap, tabs, cref>>

\* results.ignoreField(field)
IgnoreField(field) ==
  /\ rs.made
  /\ Suppress([op |-> "ignoreField", fields |-> <<field>>, pred |-> [all |-> TRUE, pairs |-> {}]])

\* results.checkRemove(field, filterMethod)
CheckRemove(field, pred) ==
  /\ rs.made
  /\ Suppress([op |-> "checkRemove", fields |-> <<field>>, pred |-> pred])

\* results.checkRemove_multiField(filterMethod, *fields)
CheckRemoveMultiField(pred, fields) ==
  /\ rs.made
  /\ Suppress([op |-> "checkRemove_multiField", fields |-> fields, pred |-> pred])

\* results.customCheck(filterMethod, *fieldsToRemove)
CustomCheck(pred, fields) ==
  /\ rs.made
  /\ Suppress([op |-> "customCheck", fields |-> fields, pred |-> pred])

\* r1 < r2 for two Results that the ResultSet holds
Compare(i, j) ==
  LET r == ResultLt(rs.results[i], rs.results[j])
  IN /\ rs.made
     /\ last.op # "lt"
     /\ i \in Range(Held(rs.data))
     /\ j \in Range(Held(rs.data))
     /\ last' = Call("lt", "", "", <<i, j>>, r.raised, r.val)
     /\ UNCHANGED <<heap, tabs, cref, steps, rs>>

\* the tables to diff: rows with the key field a and the field b, and in
\* the to-table rows that have the field c as well
InitDiff ==
  LET FromRows == {[a |-> 1, b |-> 1], [a |-> 1, b |-> 2]}
      ToRows == {[a |-> 1, b |-> 2], [a |-> 1, b |-> 2, c |-> 1], [a |-> 2, b |-> 1]}
  IN InitWith({DictInput(rows) : rows \in SeqsUpTo(FromRows, MaxRowsB)},
              {DictInput(rows) : rows \in SeqsUpTo(ToRows, MaxRowsB)})

\* diff(A, B, ...), then suppression calls and comparisons on its ResultSet
NextDiff ==
  LET Always == [all |-> TRUE, pairs |-> {}]
      Never == [all |-> FALSE, pairs |-> {}]
  IN
  \/ \E buckets \in {<<>>, <<"a">>} : Diff("A", "B", buckets)
  \/ \E field \in {"b", "c", "o_a"} : IgnoreField(field)
  \/ \E field \in {"b", "c"}, pred \in {Always, [all |-> FALSE, pairs |-> {<<1, 2>>}]} :
       CheckRemove(field, pred)
  \/ \E pred \in {Always, Never}, fields \in {<<"b">>, <<"b", "c">>} :
       CheckRemoveMultiField(pred, fields)
  \/ \E pred \in {Always, Never}, fields \in {<<"b">>, <<"c">>} : CustomCheck(pred, fields)
  \/ \E i \in 1..(2 * MaxRowsB), j \in 1..(2 * MaxRowsB) : Compare(i, j)

SpecDiff == InitDiff /\ [][NextDiff]_vars

\* filtered = results.filter(criteria)
ResultSetFilter(crit) ==
  /\ rs.made
  /\ ~rs.filtered.made
  /\ last' = Call("rsfilter", "", "", crit, "none", <<>>)
  /\ rs' = [rs EXCEPT !.filtered = [made |-> TRUE,
                                    data |-> FilterData(rs, Held(rs.data), crit, <<>>)]]
  /\ UNCHANGED <<heap, tabs, cref, steps>>

\* one suppression call on the ResultSet that filter returned: its loop
\* runs over the lists of filtered, on the Result objects of results
SuppressFiltered(call) ==
  LET r == SuppressLoop([rs EXCEPT !.data = rs.filtered.data], Held(rs.filtered.data), call)
  IN /\ rs.filtered.made
     /\ steps < MaxSteps
     /\ steps' = steps + 1
     /\ last' = Call(call.op, "filtered", "", call, r.raised, <<>>)
     /\ rs' = [r.set EXCEPT !.data = rs.data, !.filtered.data = r.set.data]
     /\ UNCHANGED <<heap, tabs, cref>>

\* filtered.ignoreField(field)
FilteredIgnoreField(field) ==
  /\ rs.filtered.made
  /\ SuppressFiltered([op |-> "ignoreField", fields |-> <<field>>,
                       pred |-> [all |-> TRUE, pairs |-> {}]])

\* filtered.checkRemove(field, filterMethod)
FilteredCheckRemove(field, pred) ==
  /\ rs.filtered.made
  /\ SuppressFiltered([op |-> "checkRemove", fields |-> <<field>>, pred |-> pred])

\* filtered.checkRemove_multiField(filterMethod, *fields)
FilteredCheckRemoveMultiField(pred, fields) ==
  /\ rs.filtered.made
  /\ SuppressFiltered([op |-> "checkRemove_multiField", fields |-> fields, pred |-> pred])

\* filtered.customCheck(filterMethod, *fieldsToRemove)
FilteredCustomCheck(pred, fields) ==
  /\ rs.filtered.made
  /\ SuppressFiltered([op |-> "customCheck", fields |-> fields, pred |-> pred])

\* diff(A, B, ...), filter on its ResultSet, then suppression calls on the
\* ResultSet that filter returned
NextFilter ==
  LET Always == [all |-> TRUE, pairs |-> {}]
      Never == [all |-> FALSE, pairs |-> {}]
  IN
  \/ \E buckets \in {<<>>, <<"a">>} : Diff("A", "B", buckets)
  \/ \E crit \in {[all |-> TRUE, keys |-> {}], [all |-> FALSE, keys |-> {}],
                  [all |-> FALSE, keys |-> {<<1>>}]} : ResultSetFilter(crit)
  \/ \E field \in {"b", "c", "o_a"} : FilteredIgnoreField(field)
  \/ \E field \in {"b", "c"}, pred \in {Always, [all |-> FALSE, pairs |-> {<<1, 2>>}]} :
       FilteredCheckRemove(field, pred)
  \/ \E pred \in {Always, Never}, fields \in {<<"b">>, <<"b", "c">>} :
       FilteredCheckRemoveMultiField(pred, fields)
  \/ \E pred \in {Always, Never}, fields \in {<<"b">>, <<"c">>} :
       FilteredCustomCheck(pred, fields)

SpecFilter == InitDiff /\ [][NextFilter]_vars

\* ------------------------------------------------------------------ claims
\* C1: in every reachable state, after any sequence of +=, -=, &=, ^= and /=
\* on tables built from row mappings, the key set of every row of a table
\* equals the table's headers().
C1_HeaderInvariant ==
  \A n \in Names : \A i \in 1..Len(tabs[n].data) :
    DOMAIN heap[tabs[n].data[i]] = tabs[n].headers

\* C2: A += B raises the header-mismatch error exactly when both header lists
\* are non-empty and differ; when it raises A is unchanged; otherwise A's
\* rows become A's rows followed by B's rows.
C2_Union ==
  [][\A t \in Names, u \in Names :
       (last'.op = "iadd" /\ last'.t = t /\ last'.u = u) =>
         LET mismatch == /\ tabs[t].headers # {}
                         /\ tabs[u].headers # {}
                         /\ tabs[t].headers # tabs[u].headers
         IN /\ (last'.raised = "HeaderMismatch") <=> mismatch
            /\ (last'.raised = "none") <=> ~mismatch
            /\ mismatch => (tabs'[t] = tabs[t] /\ heap' = heap)
            /\ ~mismatch => /\ Rows(heap', tabs'[t]) = Rows(heap, tabs[t]) \o Rows(heap, tabs[u])
                            /\ tabs'[t].headers = tabs[t].headers
                            /\ \A n \in Names \ {t} :
                                 /\ tabs'[n].headers = tabs[n].headers
                                 /\ Rows(heap', tabs'[n]) = Rows(heap, tabs[n])]_vars

\* a += that did not raise, between two different tables with rows
C2_Witness ==
  /\ last.op = "iadd"
  /\ last.raised = "none"
  /\ last.t # last.u
  /\ tabs[last.u].data # <<>>
  /\ Len(tabs[last.t].data) > Len(tabs[last.u].data)

\* the rows of the operands and of the result of the last call
LeftRows == Rows(heap, tabs[last.t])
RightRows == Rows(heap, tabs[last.u])
ResultRows == Rows(heap, Tab("C"))

Count(rows, r) == Cardinality({i \in 1..Len(rows) : rows[i] = r})

Max(x, y) == IF x >= y THEN x ELSE y

\* the rows of the result are an operand's rows with the headers in added
\* set to v: positions first+1 .. first+Len(rows) of the result
Widened(rows, first, added, v) ==
  \A i \in 1..Len(rows) :
    /\ DOMAIN ResultRows[first + i] = (DOMAIN rows[i]) \cup added
    /\ \A x \in DOMAIN rows[i] : ResultRows[first + i][x] = rows[i][x]
    /\ \A x \in added : ResultRows[first + i][x] = v

AugmentFills(v) ==
  /\ last.raised = "none"
  /\ Tab("C").headers = tabs[last.t].headers \cup tabs[last.u].headers
  /\ Len(ResultRows) = Len(LeftRows) + Len(RightRows)
  /\ Widened(LeftRows, 0, tabs[last.u].headers \ tabs[last.t].headers, v)
  /\ Widened(RightRows, Len(LeftRows), tabs[last.t].headers \ tabs[last.u].headers, v)

C8_RowSubtract ==
  last.op = "sub" =>
    /\ last.raised = "none"
    /\ ResultRows = AtPositions(LeftRows,
                      {i \in 1..Len(LeftRows) :
                         Cardinality({j \in 1..(i - 1) : LeftRows[j] = LeftRows[i]})
                           >= Count(RightRows, LeftRows[i])}, 1)
    /\ \A r \in Range(LeftRows) \cup Range(RightRows) :
         Count(ResultRows, r) = Max(Count(LeftRows, r) - Count(RightRows, r), 0)
    /\ Range(ResultRows) \subseteq Range(LeftRows)

\* A - B where a row of B occurs in A before and after a different row
C8_Witness ==
  /\ last.op = "sub"
  /\ \E i, j, k \in 1..Len(LeftRows) :
       /\ i < j /\ j < k
       /\ LeftRows[i] = LeftRows[k]
       /\ LeftRows[i] # LeftRows[j]
       /\ Count(RightRows, LeftRows[i]) = 1

\* C9: for every table T and list S of header names, T ^ S has the headers
\* of T not in S and T / S the headers of T in S; every row of the result has
\* exactly those keys, and row count, order and kept values are those of T.
ColumnsAre(hs) ==
  /\ last.raised = "none"
  /\ Tab("C").headers = hs
  /\ Len(ResultRows) = Len(LeftRows)
  /\ \A i \in 1..Len(ResultRows) :
       /\ DOMAIN ResultRows[i] = hs
       /\ \A x \in hs : ResultRows[i][x] = LeftRows[i][x]

C9_RemoveSelect ==
  /\ last.op = "xor" => ColumnsAre(tabs[last.t].headers \ Range(last.arg))
  /\ last.op = "div" => ColumnsAre(tabs[last.t].headers \cap Range(last.arg))

\* the last call is a join whose mapping is a non-empty dict of fields of
\* self to distinct fields of other
JoinOnFields ==
  /\ last.op = "join"
  /\ last.arg.params.kind = "dict"
  /\ last.arg.params.items # <<>>
  /\ Range(SelfFields(last.arg.params)) \subseteq tabs[last.t].headers
  /\ Range(OtherFields(last.arg.params)) \subseteq tabs[last.u].headers

\* the positions of other's rows whose mapped fields equal those of self's
\* row i, in order
MatchesOf(i) ==
  SelectSeq([j \in 1..Len(RightRows) |-> j],
            LAMBDA j : KeyOf(RightRows[j], OtherFields(last.arg.params))
                         = KeyOf(LeftRows[i], SelfFields(last.arg.params)))

\* the number of output rows self's row i is to yield
YieldOf(i) ==
  IF MatchesOf(i) # <<>> THEN Len(MatchesOf(i))
  ELSE IF last.arg.leftJoin THEN 1 ELSE 0

\* the number of output rows the rows of self before row i are to yield
RECURSIVE YieldBefore(_)
YieldBefore(i) == IF i <= 1 THEN 0 ELSE YieldBefore(i - 1) + YieldOf(i - 1)

\* other's headers that are not mapped to, and the names they are added under
AddedFields == tabs[last.u].headers \ Range(OtherFields(last.arg.params))
Prefixed(S) == {last.arg.prefix \o x : x \in S}

\* out carries self's row and the values of other's added fields
Carries(out, row, values) ==
  /\ (DOMAIN row) \cup Prefixed(AddedFields) \subseteq DOMAIN out
  /\ \A hd \in AddedFields : out[last.arg.prefix \o hd] = values[hd]
  /\ \A x \in (DOMAIN row) \ Prefixed(AddedFields) : out[x] = row[x]

\* the output rows of self's rows: for row i with m matches, m rows (one per
\* match, in other's order) or, with no match, one row of Nulls under
\* leftJoin and none otherwise
LeftOutput ==
  /\ last.raised = "none"
  /\ Len(last.val.rows) >= YieldBefore(Len(LeftRows) + 1)
  /\ \A i \in 1..Len(LeftRows) : \A j \in 1..YieldOf(i) :
       Carries(last.val.rows[YieldBefore(i) + j], LeftRows[i],
               IF MatchesOf(i) = <<>> THEN [hd \in AddedFields |-> Null]
               ELSE RightRows[MatchesOf(i)[j]])

\* C4: self.join(other, mapping, p) with rightJoin=false yields, for a row of
\* self with m matching rows in other, m output rows carrying self's fields
\* plus each matching row's non-join fields under the prefixed names when
\* m > 0, one row with those fields Null when m = 0 and leftJoin, and no row
\* when m = 0 and not leftJoin; nothing else is yielded.
C4_JoinRows ==
  (JoinOnFields /\ ~last.arg.rightJoin) =>
    /\ LeftOutput
    /\ Len(last.val.rows) = YieldBefore(Len(LeftRows) + 1)
    /\ \A k \in 1..Len(last.val.rows) :
         DOMAIN last.val.rows[k] = tabs[last.t].headers \cup Prefixed(AddedFields)

\* a join where a row of self has two matches and another has none
C4_Witness ==
  /\ JoinOnFields /\ ~last.arg.rightJoin
  /\ last.raised = "none"
  /\ \E i, k \in 1..Len(LeftRows) : Len(MatchesOf(i)) = 2 /\ MatchesOf(k) = <<>>

\* the positions of other's rows that match no row of self
Unmatched ==
  SelectSeq([j \in 1..Len(RightRows) |-> j],
            LAMBDA j : \A i \in 1..Len(LeftRows) :
                         KeyOf(RightRows[j], OtherFields(last.arg.params))
                           # KeyOf(LeftRows[i], SelfFields(last.arg.params)))

\* C5: with rightJoin=true the output has, after the rows of self's rows, one
\* extra row per row of other that matches no row of self and none for a
\* matched one; the extra row has all of the other row's fields, the join key
\* included, under the prefixed names and every self-only field Null.
C5_RightJoin ==
  (JoinOnFields /\ last.arg.rightJoin) =>
    LET first == YieldBefore(Len(LeftRows) + 1)
    IN /\ LeftOutput
       /\ Len(last.val.rows) = first + Len(Unmatched)
       /\ \A k \in 1..Len(Unmatched) :
            LET out == last.val.rows[first + k]
                row == RightRows[Unmatched[k]]
            IN /\ Prefixed(DOMAIN row) \cup tabs[last.t].headers \subseteq DOMAIN out
               /\ \A x \in DOMAIN row : out[last.arg.prefix \o x] = row[x]
               /\ \A x \in tabs[last.t].headers \ Prefixed(DOMAIN row) : out[x] = Null

\* C6: join fails with the invalid-join-spec error, and returns no table,
\* when the mapping is missing, is not a mapping, or is empty.
C6_InvalidJoinSpec ==
  (/\ last.op = "join"
   /\ \/ last.arg.params.kind # "dict"
      \/ last.arg.params.items = <<>>) =>
    /\ last.raised # "none"
    /\ last.arg.params.kind # "missing" => last.raised = "InvalidJoinSpec"

ReaderOps ==
  {"filter", "colfilter", "bucket", "aggregate", "distinct", "duplicates", "join", "diff"}

\* C7: a call of Column.filter, Table.filter, bucket, aggregate, distinct,
\* duplicates, join or diff on any reachable tables leaves the headers, the
\* row sequence, every row's key set and every cell value of every table as
\* they were before the call.
C7_ReadersPure ==
  [][last'.op \in ReaderOps =>
       \A n \in Names :
         /\ tabs'[n].headers = tabs[n].headers
         /\ Rows(heap', tabs'[n]) = Rows(heap, tabs[n])]_vars

ColumnOps == {"iter", "sizeOfGroups", "colsort", "colfilter"}

\* C10: on a column of a header that is not a header of its table, no call
\* fails; iterating yields no values, sizeOfGroups() is the empty map, sort()
\* leaves the table unchanged, and filter(criterion) returns a table with no
\* rows, for every kind of criterion and whatever rows the table holds.
C10_NullColumn ==
  [][(last'.op \in ColumnOps /\ last'.arg.header \notin tabs[last'.t].headers) =>
       /\ last'.raised = "none"
       /\ last'.op = "iter" => last'.val = <<>>
       /\ last'.op = "sizeOfGroups" => DOMAIN last'.val = {}
       /\ last'.op = "colfilter" => last'.val.rows = <<>>
       /\ \A n \in Names :
            /\ tabs'[n].headers = tabs[n].headers
            /\ Rows(heap', tabs'[n]) = Rows(heap, tabs[n])]_vars

\* the last call is a filter on a column of a header of its table (and a
\* criterion column of the same table is one of its headers too)
FilterOnColumn ==
  /\ last.op = "colfilter"
  /\ last.arg.header \in tabs[last.t].headers
  /\ (last.arg.crit.kind = "column" /\ last.arg.crit.table = last.t)
       => last.arg.crit.header \in tabs[last.t].headers

\* the values of the criterion column of another table
CriterionValues ==
  IF last.arg.crit.header \in tabs[last.arg.crit.table].headers
  THEN {r[last.arg.crit.header] : r \in Range(Rows(heap, tabs[last.arg.crit.table]))}
  ELSE {}

\* the rows the criterion selects
Chosen(row) ==
  LET v == row[last.arg.header]
      crit == last.arg.crit
  IN CASE crit.kind = "none" -> v = Null
       [] crit.kind = "column" /\ crit.table = last.t -> v = row[crit.header]
       [] crit.kind = "column" /\ crit.table # last.t -> v \in CriterionValues
       [] crit.kind = "predicate" -> v \in crit.accepts
       [] crit.kind = "collection" -> v \in crit.members
       [] crit.kind = "literal" -> v = crit.value

\* C11: Column.filter(criterion) returns a new table holding, in the owning
\* table's row order, exactly the rows the criterion selects: Null -> value
\* is Null; a column of the same table -> the two values are equal; a column
\* of another table -> the value is among that column's values; a predicate
\* -> it holds of the value; a collection -> the value is a member; a
\* literal -> the value equals it.
C11_ColumnFilter ==
  FilterOnColumn =>
    /\ last.raised = "none"
    /\ last.val.rows = SelectSeq(LeftRows, Chosen)
    /\ last.val.rows # <<>> => last.val.headers = tabs[last.t].headers

\* a filter by a column of the other table that keeps some rows and drops
\* others
C11_Witness ==
  /\ FilterOnColumn
  /\ last.arg.crit.kind = "column" /\ last.arg.crit.table # last.t
  /\ last.val.rows # <<>>
  /\ Len(last.val.rows) < Len(LeftRows)

\* the table of rows rows with the headers hs, alone in a heap
AsTable(hs, rows) ==
  [heap |-> Store(EmptyHeap, [i \in 1..Len(rows) |-> i], rows),
   table |-> [headers |-> hs, data |-> [i \in 1..Len(rows) |-> i]]]

\* C12: distinct(T) holds the first occurrence of each row of T, in the
\* order of those occurrences: no two rows of the result are equal, every row
\* of T equals a row of the result, and distinct of the result is the result.
C12_Distinct ==
  last.op = "distinct" =>
    /\ last.raised = "none"
    /\ last.val.rows = AtPositions(LeftRows,
                         {i \in 1..Len(LeftRows) : \A j \in 1..(i - 1) : LeftRows[j] # LeftRows[i]}, 1)
    /\ \A i, j \in 1..Len(last.val.rows) : last.val.rows[i] = last.val.rows[j] => i = j
    /\ \A i \in 1..Len(LeftRows) : LeftRows[i] \in Range(last.val.rows)
    /\ DistinctResult(AsTable(last.val.headers, last.val.rows).heap,
                      AsTable(last.val.headers, last.val.rows).table).val = last.val

\* distinct of a table where a row recurs after a different row
C12_Witness ==
  /\ last.op = "distinct"
  /\ \E i, j, k \in 1..Len(LeftRows) :
       i < j /\ j < k /\ LeftRows[i] = LeftRows[k] /\ LeftRows[i] # LeftRows[j]

\* the last call is an aggregate by headers of the table whose output
\* fields are no group-by fields and whose Sum fields are headers holding
\* numbers
AggregateOnFields ==
  /\ last.op = "aggregate"
  /\ Range(last.arg.groupBy) \subseteq tabs[last.t].headers
  /\ \A j \in 1..Len(last.arg.aggs) :
       /\ last.arg.aggs[j].out \notin Range(last.arg.groupBy)
       /\ last.arg.aggs[j].method = "Sum" =>
            /\ last.arg.aggs[j].field \in tabs[last.t].headers
            /\ \A i \in 1..Len(LeftRows) : LeftRows[i][last.arg.aggs[j].field] \notin {Null, Blank}

\* the sum of field over the first n rows of the table that have the key
RECURSIVE Total(_, _, _)
Total(field, key, n) ==
  IF n = 0 THEN 0
  ELSE Total(field, key, n - 1)
         + (IF KeyOf(LeftRows[n], last.arg.groupBy) = key THEN LeftRows[n][field] ELSE 0)

\* what an aggregation is to give for the rows with the key
Expected(agg, key) ==
  IF agg.method = "Sum" THEN Total(agg.field, key, Len(LeftRows))
  ELSE Cardinality({i \in 1..Len(LeftRows) : KeyOf(LeftRows[i], last.arg.groupBy) = key})

\* the rows of the table cut down to the group-by fields
GroupRows == [i \in 1..Len(LeftRows) |-> Restrict(LeftRows[i], Range(last.arg.groupBy))]

\* C13: aggregate(groupBy, aggregations) with an aggregation returns one row
\* per distinct tuple of group-by values of the table, holding those values
\* and, for each output field, the aggregator applied to the rows with that
\* tuple (Sum: their sum; Count: their number); with no aggregation it
\* returns the rows cut down to the group-by fields, made distinct.
C13_Aggregate ==
  AggregateOnFields =>
    /\ last.raised = "none"
    /\ last.arg.aggs # <<>> =>
         LET keys == {KeyOf(LeftRows[i], last.arg.groupBy) : i \in 1..Len(LeftRows)}
         IN /\ Len(last.val.rows) = Cardinality(keys)
            /\ \A key \in keys : \E k \in 1..Len(last.val.rows) :
                 /\ KeyOf(last.val.rows[k], last.arg.groupBy) = key
                 /\ \A j \in 1..Len(last.arg.aggs) :
                      last.val.rows[k][last.arg.aggs[j].out] = Expected(last.arg.aggs[j], key)
                 /\ DOMAIN last.val.rows[k] =
                      Range(last.arg.groupBy) \cup {last.arg.aggs[j].out : j \in 1..Len(last.arg.aggs)}
    /\ last.arg.aggs = <<>> =>
         last.val.rows = AtPositions(GroupRows,
                           {i \in 1..Len(GroupRows) : \A j \in 1..(i - 1) : GroupRows[j] # GroupRows[i]}, 1)

\* an aggregate with a Sum over two groups, one of them of two rows
C13_Witness ==
  /\ AggregateOnFields
  /\ \E j \in 1..Len(last.arg.aggs) : last.arg.aggs[j].method = "Sum"
  /\ Len(last.val.rows) = 2
  /\ Len(LeftRows) = 3

KeyIn(t, row) ==
  LET bucketHeaders == SelectSeq(rs.keyFields, LAMBDA x : x \in tabs[t].headers)
  IN [k \in 1..Len(bucketHeaders) |-> row[bucketHeaders[k]]]

\* the value tuples over the diff fields of the rows of table t with the
\* key, in row order
TuplesOf(t, key) ==
  LET rows == SelectSeq(Rows(heap, tabs[t]), LAMBDA row : KeyIn(t, row) = key)
  IN [i \in 1..Len(rows) |->
        [k \in 1..Len(rs.diffFields) |->
           IF rs.diffFields[k] \in DOMAIN rows[i] THEN rows[i][rs.diffFields[k]] ELSE Null]]

\* the keys of the rows of both tables
DiffKeys ==
  {KeyIn("A", row) : row \in Range(Rows(heap, tabs["A"]))}
    \cup {KeyIn("B", row) : row \in Range(Rows(heap, tabs["B"]))}

\* x is below y in the order of value tuples: the first value that differs
\* decides, Null (-1) below every number
Below(x, y) ==
  \E i \in 1..Len(x) : x[i] < y[i] /\ \A j \in 1..(i - 1) : x[j] = y[j]

\* the tuples of values in that order
Ordered(values) ==
  CHOOSE s \in [1..Len(values) -> Range(values)] :
    /\ \A v \in Range(values) : Count(s, v) = Count(values, v)
    /\ \A i, j \in 1..Len(values) : i < j => ~Below(s[j], s[i])

\* the Results the ResultSet holds for key, in the order of its list
HeldOf(key) ==
  LET e == SelectSeq(rs.data, LAMBDA x : x.key = key)
  IN IF e = <<>> THEN <<>> ELSE [i \in 1..Len(e[1].list) |-> rs.results[e[1].list[i]]]

\* the Result of the pair of a from-row f and a to-row t
PairResult(key, f, t) ==
  [key |-> key, fromRow |-> <<f>>, toRow |-> <<t>>,
   data |-> [i \in {i \in 1..Len(f) : f[i] # t[i]} |-> <<f[i], t[i]>>]]

EqualSize(key) ==
  /\ TuplesOf("A", key) # <<>>
  /\ Len(TuplesOf("A", key)) = Len(TuplesOf("B", key))

\* C15: after diff, for every key whose from-bucket and to-bucket have the
\* same number of rows, the rows of each side in the order of value tuples
\* (Null lowest) are paired by position; the ResultSet holds for that key, in
\* that order, one Result per pair whose rows differ, with that one from-row
\* and that one to-row, and whose changed-field map holds exactly the
\* positions at which they differ, mapped to (fromValue, toValue).
C15_EqualSize ==
  (last.op = "diff" /\ last.raised = "none") =>
    \A key \in DiffKeys :
      EqualSize(key) =>
        LET f == Ordered(TuplesOf("A", key))
            t == Ordered(TuplesOf("B", key))
        IN HeldOf(key) = SelectSeq([i \in 1..Len(f) |-> PairResult(key, f[i], t[i])],
                                   LAMBDA r : DOMAIN r.data # {})

\* a diff where a key has two rows on each side, the from-rows are not in
\* order, and one pair of rows differs while the other does not
C15_Witness ==
  /\ last.op = "diff"
  /\ last.raised = "none"
  /\ \E key \in DiffKeys :
       /\ EqualSize(key)
       /\ Len(TuplesOf("A", key)) = 2
       /\ Ordered(TuplesOf("A", key)) # TuplesOf("A", key)
       /\ Len(HeldOf(key)) = 1

SuppressionOps == {"ignoreField", "checkRemove", "checkRemove_multiField", "customCheck"}

\* C16: after diff and after any sequence of suppression calls, for every key
\* whose from-bucket and to-bucket differ in size (an absent side has no
\* rows) the ResultSet holds exactly one Result; it has the rows of both
\* buckets, an empty changed-field map, and is truthy.
C16_Mismatch ==
  rs.made =>
    \A key \in DiffKeys :
      ~EqualSize(key) =>
        /\ Len(HeldOf(key)) = 1
        /\ Len(HeldOf(key)[1].fromRow) = Len(TuplesOf("A", key))
        /\ Len(HeldOf(key)[1].toRow) = Len(TuplesOf("B", key))
        /\ DOMAIN HeldOf(key)[1].data = {}
        /\ Significant(HeldOf(key)[1])

\* two suppression calls were made, the last a customCheck whose filter
\* holds, on the diff of a key with two from-rows and one to-row
C16_Witness ==
  /\ rs.made
  /\ steps >= 2
  /\ last.op = "customCheck"
  /\ last.raised = "none"
  /\ last.arg.pred.all
  /\ \E key \in DiffKeys : Len(TuplesOf("A", key)) = 2 /\ Len(TuplesOf("B", key)) = 1

\* C17: after diff and after every suppression call, every Result the
\* ResultSet holds is significant and no key maps to an empty list; a
\* suppression call that does not fail removes exactly the Results that lost
\* their last changed field, and the others stay in their order.
C17_Suppression ==
  [][/\ rs'.made =>
          /\ \A id \in Range(Held(rs'.data)) :
               \/ DOMAIN rs'.results[id].data # {}
               \/ Len(rs'.results[id].fromRow) # Len(rs'.results[id].toRow)
          /\ \A k \in 1..Len(rs'.data) : rs'.data[k].list # <<>>
     /\ (last'.op \in SuppressionOps /\ last'.raised = "none") =>
          Held(rs'.data) =
            AtPositions(Held(rs.data),
                        {i \in 1..Len(Held(rs.data)) :
                           \/ DOMAIN rs.results[Held(rs.data)[i]].data = {}
                           \/ DOMAIN rs'.results[Held(rs.data)[i]].data # {}}, 1)]_vars

\* a suppression call after which a key holds fewer Results than it has
\* pairs of rows that differ, and still holds one
C17_Witness ==
  /\ last.op \in SuppressionOps
  /\ last.raised = "none"
  /\ \E key \in DiffKeys :
       /\ EqualSize(key)
       /\ HeldOf(key) # <<>>
       /\ Len(HeldOf(key)) <
            Cardinality({i \in 1..Len(TuplesOf("A", key)) :
                           Ordered(TuplesOf("A", key))[i] # Ordered(TuplesOf("B", key))[i]})

\* C18: a comparison r1 < r2 of two Results never fails; it is decided by
\* the keys when they differ; for unequal Results exactly one of r1 < r2 and
\* r2 < r1 holds; and the relation is transitive.
C18_ResultOrder ==
  last.op = "lt" =>
    LET r1 == rs.results[last.arg[1]]
        r2 == rs.results[last.arg[2]]
    IN /\ last.raised = "none"
       /\ r1.key # r2.key => last.val = Below(r1.key, r2.key)
       /\ (r1.key # r2.key \/ r1.data # r2.data) => last.val # ResultLt(r2, r1).val
       /\ \A id \in Range(Held(rs.data)) :
            (last.val /\ ResultLt(r2, rs.results[id]).val) => ResultLt(r1, rs.results[id]).val

\* the Results the ResultSet holds whose from side and to side are not
\* exactly one row each
NotPaired ==
  {id \in Range(Held(rs.data)) :
     Len(rs.results[id].fromRow) # 1 \/ Len(rs.results[id].toRow) # 1}

\* C19 as stated: customCheck on a ResultSet holding a Result whose from side
\* and to side are not exactly one row each fails with the
\* suppression-precondition error and leaves the ResultSet unchanged.
C19_Original ==
  [][(last'.op = "customCheck" /\ NotPaired # {}) =>
       /\ last'.raised = "SuppressionPreconditionError"
       /\ rs' = rs]_vars

\* C19 amended: customCheck does not fail on a Result whose from side and to
\* side are not exactly one row each: the call returns, that Result keeps its
\* changed-field map and stays in the ResultSet, and a ResultSet holding only
\* such Results is unchanged.
C19_CustomCheck ==
  [][last'.op = "customCheck" =>
       /\ last'.raised \in {"none", "KeyError"}
       /\ \A id \in NotPaired :
            /\ rs'.results[id] = rs.results[id]
            /\ id \in Range(Held(rs'.data))
       /\ NotPaired = Range(Held(rs.data)) => (last'.raised = "none" /\ rs' = rs)]_vars

\* customCheck with a filter that holds was called on a ResultSet that holds
\* a Result of two from-rows and one to-row
C19_Witness ==
  /\ last.op = "customCheck"
  /\ last.arg.pred.all
  /\ \E id \in Range(Held(rs.data)) :
       Len(rs.results[id].fromRow) = 2 /\ Len(rs.results[id].toRow) = 1

\* the headers and rows of A and of B are the same before and after the step
OperandsKept ==
  \A n \in Operands :
    /\ tabs'[n].headers = tabs[n].headers
    /\ Rows(heap', tabs'[n]) = Rows(heap, tabs[n])

\* C20: computing C = A + B, augment(A, B), A - B, A & m, A ^ S, A / S
\* changes neither A nor B, and no in-place mutation of C (&=, ^=, /=,
\* Column.set, fillDownBlanks) changes a row of A or of B.
C20_OperandIndependence ==
  [][/\ last'.op \in {"add", "augment", "sub", "and", "xor", "div"} => OperandsKept
     /\ (last'.t = "C" /\ last'.op \in {"iand", "ixor", "idiv", "set", "fillDownBlanks"})
          => OperandsKept]_vars

\* C21: filter(criteria) returns a ResultSet that holds exactly the Results
\* of the original for which criteria holds, in their order, and leaves the
\* original unchanged; and after a suppression call on the filtered
\* ResultSet the original holds the Results it held, all significant, with
\* the changed-field maps they had before the call.
C21_FilterIndependence ==
  [][/\ last'.op = "rsfilter" =>
          /\ Held(rs'.filtered.data) =
               SelectSeq(Held(rs.data),
                         LAMBDA id : last'.arg.all \/ rs.results[id].key \in last'.arg.keys)
          /\ rs'.data = rs.data
          /\ rs'.results = rs.results
     /\ (last'.op \in SuppressionOps /\ last'.t = "filtered") =>
          /\ rs'.data = rs.data
          /\ \A id \in Range(Held(rs.data)) :
               /\ rs'.results[id].data = rs.results[id].data
               /\ Significant(rs'.results[id])]_vars

====
